---- MODULE Spec2Model ----
(***************************************************************************)
(* Model of the Slack ETL-notification loader (scripts/slack-etl-load.py): *)
(* the paginated chunk fetch, the regex extraction of load records, the    *)
(* 7-day chunk scheduling over a 3-thread pool, and the parquet cache.     *)
(*                                                                         *)
(* Time is counted in ticks since 2024-01-01 00:00 (local time); a day is  *)
(* TicksPerDay ticks.  Text is a sequence of one-character strings.        *)
(***************************************************************************)
EXTENDS Integers, Sequences, FiniteSets, TLC

VARIABLES
    cache_file,     \* content of the parquet file at cache_file, or NoFile
    pc,             \* "idle" | "fetching" | "done": position of the process
    entry,          \* "none" | "call" | "main": entry point of the current run
    path,           \* "none" | "cache" | "fetch": branch taken at line 80
    start_date,     \* start_date argument of the current run (NoDate or a date)
    end_date,       \* end_date argument of the current run (NoDate or a date)
    start_time,     \* start_time local of fetch_etl_history (ticks)
    end_time,       \* end_time local of fetch_etl_history (ticks)
    time_chunks,    \* time_chunks local: sequence of <<oldest, latest>>
    chunk,          \* per chunk: the locals of its fetch_slack_chunk call
    chunk_results,  \* per chunk: the list its call returned (once done)
    ret,            \* value returned by fetch_etl_history, or Pending
    events_used,    \* failed or continued page requests of this run
    requested,      \* TRUE once this run issued a conversations_history call
    had_cache,      \* TRUE iff the file existed when this run was entered
    stored,         \* set of rows passed to the last store, or NotStored
    favstats,       \* what the analysis script last computed, or NoStats
    writes          \* write_parquet calls of the current run

vars == <<cache_file, pc, entry, path, start_date, end_date, start_time,
          end_time, time_chunks, chunk, chunk_results, ret, events_used, requested, had_cache, stored,
          favstats, writes>>

-----------------------------------------------------------------------------
(* Bounds of the model *)

TicksPerDay == 2    \* resolution of the clock
MaxEvents == 2      \* failed or continued page requests per run

(* Program constants *)

ChunkDays == 7      \* timedelta(days=7)
max_workers == 3    \* ThreadPoolExecutor(max_workers=3)

None == "None"
NoFile == [exists |-> FALSE]
NoData == [returned |-> "None"]    \* fetch_etl_history returned None
Pending == [returned |-> "not yet"] \* fetch_etl_history has not returned
NotStored == {}
NoStats == [printed |-> FALSE]     \* the analysis script has not run
NoDate == <<>>          \* a date argument left at None
NoTime == -1            \* a time local not assigned
NoMatch == "NoMatch"
Marker == "ETL Notification"

Min(S) == CHOOSE x \in S : \A y \in S : x <= y
Max(S) == CHOOSE x \in S : \A y \in S : x >= y

-----------------------------------------------------------------------------
(* Dates: datetime.strptime(s, '%Y-%m-%d') and datetime(2024, 1, 1) *)

IsLeap(y) == (y % 4 = 0 /\ y % 100 # 0) \/ y % 400 = 0

DaysInMonth(y, m) ==
    IF m = 2 THEN (IF IsLeap(y) THEN 29 ELSE 28)
    ELSE IF m \in {4, 6, 9, 11} THEN 30 ELSE 31

RECURSIVE DaysBeforeMonth(_, _)
DaysBeforeMonth(y, m) ==
    IF m = 1 THEN 0 ELSE DaysBeforeMonth(y, m - 1) + DaysInMonth(y, m - 1)

RECURSIVE DaysBeforeYear(_)
DaysBeforeYear(y) ==
    IF y <= 2024 THEN 0
    ELSE DaysBeforeYear(y - 1) + (IF IsLeap(y - 1) THEN 366 ELSE 365)

\* a date is <<year, month, day>>; the result is midnight of that day
Strptime(date) ==
    (DaysBeforeYear(date[1]) + DaysBeforeMonth(date[1], date[2]) + date[3] - 1)
        * TicksPerDay

DefaultStart == <<2024, 1, 1>>
MainStartDate == <<2024, 1, 1>>
MainEndDate == <<2024, 12, 31>>

-----------------------------------------------------------------------------
(* Chunk windows: the loop of lines 99-105 *)

MinTime(a, b) == IF a <= b THEN a ELSE b

NextChunkEndSkipsClamp(chunk_start, end) == chunk_start + ChunkDays * TicksPerDay

NextChunkEnd(chunk_start, end) ==
    MinTime(chunk_start + ChunkDays * TicksPerDay, end)

RECURSIVE ChunkWindows(_, _)
ChunkWindows(chunk_start, end) ==
    IF chunk_start < end
    THEN LET chunk_end == NextChunkEnd(chunk_start, end)
         IN  <<<<chunk_start, chunk_end>>>> \o ChunkWindows(chunk_end, end)
    ELSE <<>>

-----------------------------------------------------------------------------
(* Text and the three regular expressions of lines 39-45 *)

Digits == {"0", "1", "2", "3", "4", "5", "6", "7", "8", "9"}
Letters == {"a", "b", "c", "d", "e", "f", "g", "h", "i", "j", "k", "l", "m",
            "n", "o", "p", "q", "r", "s", "t", "u", "v", "w", "x", "y", "z",
            "U"}
WordChars == Letters \cup Digits \cup {"_"}     \* \w
TableChars == WordChars \cup {"."}              \* [\w\.]
SpaceChars == {" ", "\n", "\t"}                 \* \s

DigitVal(c) ==
    CASE c = "0" -> 0 [] c = "1" -> 1 [] c = "2" -> 2 [] c = "3" -> 3
      [] c = "4" -> 4 [] c = "5" -> 5 [] c = "6" -> 6 [] c = "7" -> 7
      [] c = "8" -> 8 [] c = "9" -> 9

\* int(row_count)
RECURSIVE IntOf(_)
IntOf(digs) ==
    IF digs = <<>> THEN 0
    ELSE IntOf(SubSeq(digs, 1, Len(digs) - 1)) * 10 + DigitVal(digs[Len(digs)])

StartsWithAt(text, i, lit) ==
    /\ i + Len(lit) - 1 <= Len(text)
    /\ \A k \in 1..Len(lit) : text[i + k - 1] = lit[k]

\* end (exclusive) of the longest run of characters of class from position i
RECURSIVE RunEnd(_, _, _)
RunEnd(text, i, class) ==
    IF i > Len(text) \/ text[i] \notin class THEN i
    ELSE RunEnd(text, i + 1, class)

\* re.search(pre + '(.*?)' + suf, text): group 1 of the leftmost match, the
\* lazy group ending at the first suf; '.' does not match a newline
SearchLazy(text, pre, suf) ==
    LET ends(i) == {j \in (i + Len(pre))..Len(text) :
                      /\ StartsWithAt(text, j, suf)
                      /\ \A k \in (i + Len(pre))..(j - 1) : text[k] # "\n"}
        starts == {i \in 1..Len(text) :
                      StartsWithAt(text, i, pre) /\ ends(i) # {}}
    IN  IF starts = {} THEN NoMatch
        ELSE LET i == Min(starts)
             IN  SubSeq(text, i + Len(pre), Min(ends(i)) - 1)

S_loaded == <<"l","o","a","d","e","d",":"," ">>
S_open == <<" ","(">>
S_into == <<"i","n","t","o"," ">>
S_colon == <<":">>
S_rows == <<"r","o","w","s">>
S_Unknown == <<"U","n","k","n","o","w","n">>

\* lines 39-40
FilenameOf(text) ==
    LET g == SearchLazy(text, S_loaded, S_open)
    IN  IF g = NoMatch THEN S_Unknown ELSE g

\* lines 42-43
DestinationOf(text) ==
    LET g == SearchLazy(text, S_into, S_colon)
    IN  IF g = NoMatch THEN S_Unknown ELSE g

\* one attempt of ([\w\.]+):\s*(\d+)\s*rows at position i; every quantifier
\* is greedy and no shorter repetition can match, so the attempt is decided
\* by the longest runs
TableMatchAt(text, i) ==
    LET j == RunEnd(text, i, TableChars)
        k == RunEnd(text, j + 1, SpaceChars)
        l == RunEnd(text, k, Digits)
        m == RunEnd(text, l, SpaceChars)
    IN  IF /\ j > i
           /\ j <= Len(text)
           /\ text[j] = ":"
           /\ l > k
           /\ StartsWithAt(text, m, S_rows)
        THEN [ok |-> TRUE, table |-> SubSeq(text, i, j - 1),
              row_count |-> SubSeq(text, k, l - 1), end |-> m + Len(S_rows)]
        ELSE [ok |-> FALSE]

\* re.findall: leftmost non-overlapping matches, scanning from pos
RECURSIVE FindTablesFrom(_, _)
FindTablesFrom(text, pos) ==
    IF pos > Len(text) THEN <<>>
    ELSE LET m == TableMatchAt(text, pos)
         IN  IF m.ok
             THEN <<<<m.table, m.row_count>>>> \o FindTablesFrom(text, m.end)
             ELSE FindTablesFrom(text, pos + 1)

\* line 45
FindTables(text) == FindTablesFrom(text, 1)

-----------------------------------------------------------------------------
(* Record extraction: the message loop of lines 32-54 *)

\* datetime.fromtimestamp(float(msg["ts"])): ts is a decimal string of ticks
FromTimestamp(ts) == IntOf(ts)

IsMarkerAnyPretext(att) == TRUE

\* line 35: attachment.get("pretext") == "ETL Notification"
IsMarker(att) == "pretext" \in DOMAIN att /\ att.pretext = Marker

\* line 37: attachment.get("text", "")
TextOf(att) == IF "text" \in DOMAIN att THEN att.text ELSE <<>>

TablesFirstOnly(text) ==
    LET all == FindTables(text) IN IF all = <<>> THEN <<>> ELSE <<all[1]>>

\* line 45-47: the pairs the loop of line 47 iterates over
TableData(text) == FindTables(text)

\* lines 36-54 for one marker attachment of a message that has a ts
AttachmentRows(msg, att) ==
    LET ts == FromTimestamp(msg.ts)
        text == TextOf(att)
        filename == FilenameOf(text)
        destination == DestinationOf(text)
        table_data == TableData(text)
    IN  [p \in 1..Len(table_data) |->
            [timestamp |-> ts, filename |-> filename,
             destination |-> destination, table |-> table_data[p][1],
             rows |-> IntOf(table_data[p][2])]]

\* lines 34-54: attachments i.. of msg; raised when msg["ts"] is missing
RECURSIVE MessageRowsFrom(_, _)
MessageRowsFrom(msg, i) ==
    IF i > Len(msg.attachments) THEN [rows |-> <<>>, raised |-> FALSE]
    ELSE IF IsMarker(msg.attachments[i])
    THEN IF "ts" \notin DOMAIN msg THEN [rows |-> <<>>, raised |-> TRUE]
         ELSE LET rest == MessageRowsFrom(msg, i + 1)
              IN  [rows |-> AttachmentRows(msg, msg.attachments[i]) \o rest.rows,
                   raised |-> rest.raised]
    ELSE MessageRowsFrom(msg, i + 1)

\* lines 33-54 for one message
ProcessMessage(msg) ==
    IF "attachments" \in DOMAIN msg THEN MessageRowsFrom(msg, 1)
    ELSE [rows |-> <<>>, raised |-> FALSE]

\* lines 32-54 for the messages i.. of one page: the rows appended to
\* all_rows before the loop ends or raises
RECURSIVE ProcessMessagesFrom(_, _)
ProcessMessagesFrom(messages, i) ==
    IF i > Len(messages) THEN [rows |-> <<>>, raised |-> FALSE]
    ELSE LET first == ProcessMessage(messages[i])
         IN  IF first.raised THEN first
             ELSE LET rest == ProcessMessagesFrom(messages, i + 1)
                  IN  [rows |-> first.rows \o rest.rows, raised |-> rest.raised]

ProcessMessages(messages) == ProcessMessagesFrom(messages, 1)

-----------------------------------------------------------------------------
(* Data frame, sort and parquet file: lines 82, 119-130 *)

Columns == <<"timestamp", "filename", "destination", "table", "rows">>

\* pl.DataFrame(all_rows): a list of row dicts becomes typed columns
DataFrame(all_rows) ==
    [timestamp   |-> [i \in 1..Len(all_rows) |-> all_rows[i].timestamp],
     filename    |-> [i \in 1..Len(all_rows) |-> all_rows[i].filename],
     destination |-> [i \in 1..Len(all_rows) |-> all_rows[i].destination],
     table       |-> [i \in 1..Len(all_rows) |-> all_rows[i].table],
     rows        |-> [i \in 1..Len(all_rows) |-> all_rows[i].rows]]

Height(df) == Len(df.timestamp)

\* the rows of a data frame, in order
DfRows(df) ==
    [i \in 1..Height(df) |->
        [timestamp |-> df.timestamp[i], filename |-> df.filename[i],
         destination |-> df.destination[i], table |-> df.table[i],
         rows |-> df.rows[i]]]

RemoveAt(s, i) == SubSeq(s, 1, i - 1) \o SubSeq(s, i + 1, Len(s))

\* every arrangement of rows that is ordered by timestamp (the sort is not
\* stable: rows of equal timestamp may come out in any order)
RECURSIVE SortedArrangements(_)
SortedArrangements(rows) ==
    IF rows = <<>> THEN {<<>>}
    ELSE LET least == Min({rows[i].timestamp : i \in 1..Len(rows)})
             firsts == {rows[i] : i \in {j \in 1..Len(rows) : rows[j].timestamp = least}}
             at(row) == Min({i \in 1..Len(rows) : rows[i] = row})
         IN  UNION {{<<row>> \o rest :
                        rest \in SortedArrangements(RemoveAt(rows, at(row)))} :
                    row \in firsts}

SortSkipped(df) == {df}

RECURSIVE DropRepeats(_)
DropRepeats(rows) ==
    IF Len(rows) <= 1 THEN rows
    ELSE IF rows[1] = rows[2] THEN DropRepeats(Tail(rows))
    ELSE <<rows[1]>> \o DropRepeats(Tail(rows))

SortDropsRepeats(df) ==
    {DataFrame(DropRepeats(s)) : s \in SortedArrangements(DfRows(df))}

\* df.sort('timestamp'): the possible results
SortTimestamp(df) == {DataFrame(s) : s \in SortedArrangements(DfRows(df))}

WriteParquetDropsLastRow(df) ==
    [schema |-> Columns,
     data |-> <<SubSeq(df.timestamp, 1, Height(df) - 1),
                SubSeq(df.filename, 1, Height(df) - 1),
                SubSeq(df.destination, 1, Height(df) - 1),
                SubSeq(df.table, 1, Height(df) - 1),
                SubSeq(df.rows, 1, Height(df) - 1)>>]

\* df.write_parquet(cache_file): the schema and one column chunk per column
WriteParquet(df) ==
    [schema |-> Columns,
     data |-> <<df.timestamp, df.filename, df.destination, df.table, df.rows>>]

ColumnOf(file, name) ==
    file.data[CHOOSE i \in 1..Len(file.schema) : file.schema[i] = name]

\* pl.read_parquet(cache_file)
ReadParquet(file) ==
    [timestamp   |-> ColumnOf(file, "timestamp"),
     filename    |-> ColumnOf(file, "filename"),
     destination |-> ColumnOf(file, "destination"),
     table       |-> ColumnOf(file, "table"),
     rows        |-> ColumnOf(file, "rows")]

ExistsNever(file) == FALSE

\* os.path.exists(cache_file)
Exists(file) == file # NoFile

RemoveSkipped(file) == file

\* lines 167-168: os.remove(cache_file) if it exists
RemoveIfExists(file) == NoFile

RECURSIVE FlattenFrom(_, _)
FlattenFrom(lists, i) ==
    IF i > Len(lists) THEN <<>> ELSE lists[i] \o FlattenFrom(lists, i + 1)

FlattenFirstOnly(lists) == IF lists = <<>> THEN <<>> ELSE lists[1]

\* line 119: [row for chunk in chunk_results for row in chunk]
Flatten(lists) == FlattenFrom(lists, 1)

RowSet(rows) == {rows[i] : i \in 1..Len(rows)}

NeverEmpty(all_rows) == FALSE

\* line 121: not all_rows
IsEmpty(all_rows) == all_rows = <<>>

-----------------------------------------------------------------------------
(* The messaging API: what conversations_history may answer *)

TextA == <<"l","o","a","d","e","d",":"," ","f"," ","(","x",")"," ","i","n","t","o"," ","w",":"," ","t",":"," ","2"," ","r","o","w","s">>
TextB == <<"l","o","a","d","e","d",":"," ","g"," ","(","x",")"," ","i","n","t","o"," ","w",":"," ","t",":"," ","7"," ","r","o","w","s",","," ","u",".","v",":"," ","1","0"," ","r","o","w","s">>
TextC == <<"t",":"," ","4"," ","r","o","w","s">>

DigitChar(d) ==
    CASE d = 0 -> "0" [] d = 1 -> "1" [] d = 2 -> "2" [] d = 3 -> "3"
      [] d = 4 -> "4" [] d = 5 -> "5" [] d = 6 -> "6" [] d = 7 -> "7"
      [] d = 8 -> "8" [] d = 9 -> "9"

\* the decimal numeral of n >= 0
RECURSIVE Numeral(_)
Numeral(n) ==
    IF n < 10 THEN <<DigitChar(n)>> ELSE Numeral(n \div 10) \o <<DigitChar(n % 10)>>

\* the ts of a message posted ticks after midnight of date
TsAt(date, ticks) == Numeral(Strptime(date) + ticks)

MsgNew == [ts |-> TsAt(<<2025, 1, 10>>, 1),
           attachments |-> <<[pretext |-> Marker, text |-> TextA]>>]
MsgOld == [ts |-> TsAt(<<2025, 1, 8>>, 0),
           attachments |-> <<[pretext |-> Marker, text |-> TextB]>>]
MsgEdge == [ts |-> TsAt(<<2025, 1, 13>>, 0),
            attachments |-> <<[pretext |-> Marker, text |-> TextC]>>]
MsgMid == [ts |-> TsAt(<<2025, 1, 14>>, 1),
           attachments |-> <<[pretext |-> Marker, text |-> TextA]>>]
MsgPlain == [ts |-> TsAt(<<2025, 1, 14>>, 0)]
MsgOther == [ts |-> TsAt(<<2025, 1, 15>>, 0),
             attachments |-> <<[pretext |-> "Build", text |-> TextA]>>]
MsgNoTs == [attachments |-> <<[pretext |-> Marker, text |-> TextA]>>]
MsgYearEnd == [ts |-> TsAt(<<2024, 12, 30>>, 1),
               attachments |-> <<[pretext |-> Marker, text |-> TextC]>>]

\* pages are newest first, as the API returns them
PageTwo == <<MsgNew, MsgOld>>
PageEdge == <<MsgEdge>>
PageBroken == <<MsgOld, MsgNoTs, MsgNew>>
PageMixed == <<MsgOther, MsgMid, MsgPlain>>
PageYearEnd == <<MsgYearEnd>>
PagePool == {PageTwo, PageEdge, PageBroken, PageMixed, PageYearEnd}

\* what the loop extracts from each page of the pool, evaluated once
PoolRows == [p \in PagePool \cup {<<>>} |-> ProcessMessages(p)]

\* lines 32-54: the loop over result.get("messages", [])
ProcessPage(messages) ==
    IF messages \in DOMAIN PoolRows THEN PoolRows[messages]
    ELSE ProcessMessages(messages)

\* the channel saw no traffic before this date, except the pool's messages
BusyFrom == <<2024, 12, 30>>

\* the API names the page that follows the k-th page of a window
Cursors == <<"c1", "c2", "c3", "c4">>
NextCursor(c) == Cursors[Len(chunk[c].pages) + 1]
Raise == [raise |-> TRUE]

Ok(messages, has_more, next_cursor) ==
    [raise |-> FALSE, messages |-> messages, has_more |-> has_more,
     next_cursor |-> next_cursor]

\* every message of the page lies in the window (a message on a boundary
\* may be served for both windows it touches)
Fits(page, window) ==
    \A i \in 1..Len(page) :
        "ts" \in DOMAIN page[i] =>
            /\ window[1] <= IntOf(page[i].ts)
            /\ IntOf(page[i].ts) <= window[2]

\* the window of chunk c starts when the channel is busy: its requests may
\* fail or be continued
Busy(c) == time_chunks[c][1] >= Strptime(BusyFrom)

LastFlags(c) == {<<TRUE, "">>, <<TRUE, None>>, <<FALSE, NextCursor(c)>>}
MoreFlags(c) == {<<TRUE, NextCursor(c)>>}

\* the answers the API may give to the next request of chunk c
Responses(c) ==
    LET pages == {<<>>} \cup {p \in PagePool : Fits(p, time_chunks[c])}
        events == Busy(c) /\ events_used < MaxEvents
    IN  {Ok(m, FALSE, None) : m \in pages}
        \cup (IF events
              THEN {Ok(m, f[1], f[2]) : m \in pages, f \in LastFlags(c) \cup MoreFlags(c)}
                   \cup {Raise}
              ELSE {})

-----------------------------------------------------------------------------
(* fetch_slack_chunk: one call per chunk, run by a pool thread *)

\* no response received yet, no request sent yet
NoResponse == [none |-> TRUE]
NotSent == "not sent"

NoWindow == <<>>

\* all_rows, cursor: the locals; pages: the pages processed so far; sent: the
\* cursor parameter of the last request; last: what the last request gave;
\* calls: the calls of fetch_slack_chunk made for the chunk; window: the
\* oldest and latest arguments of the call; requests: the calls of
\* conversations_history made; delays: the time.sleep(2) of line 61 made
Queued == [st |-> "queued", all_rows |-> <<>>, cursor |-> None,
           pages |-> <<>>, raised |-> "no", sent |-> NotSent,
           last |-> NoResponse, calls |-> 0, window |-> NoWindow,
           requests |-> 0, delays |-> 0]
Started == [Queued EXCEPT !.st = "request"]
Finished == [Queued EXCEPT !.st = "done"]

NChunks == Len(time_chunks)

\* a request that fails or is continued
IsEvent(resp) ==
    resp.raise \/ resp.has_more \/ resp.next_cursor # None

\* python truth value of a cursor: None and "" are false
Truthy(cursor) == cursor # None /\ cursor # ""

HasMoreIgnoresCursor(cursor, has_more) == has_more

\* line 58: bool(cursor and result.get('has_more', False))
HasMore(cursor, has_more) == Truthy(cursor) /\ has_more

KeepNothing(all_rows) == <<>>

\* lines 63-66: the handler leaves all_rows as it is
RowsAfterError(all_rows) == all_rows

\* the calls a pool thread is executing
InFlight == {d \in 1..NChunks : chunk[d].st \notin {"queued", "done"}}

AlwaysFree == TRUE

\* line 110: one of the max_workers threads is idle
WorkerIsFree == Cardinality(InFlight) < max_workers

\* a pool thread takes the next queued call: lines 15-18, 113
StartChunk(c) ==
    /\ pc = "fetching"
    /\ chunk[c].st = "queued"
    /\ \A d \in 1..(c - 1) : chunk[d].st # "queued"
    /\ WorkerIsFree
    /\ chunk' = [chunk EXCEPT ![c] = [Started EXCEPT !.calls = chunk[c].calls + 1,
                                                      !.window = time_chunks[c]]]
    /\ UNCHANGED <<writes, favstats, cache_file, pc, entry, path, start_date, end_date,
                   start_time, end_time, time_chunks, chunk_results, ret, events_used, requested, had_cache, stored>>

SkipsDelay == "request"

\* lines 60-61: where the loop is when the response reported more pages:
\* at time.sleep(2)
AfterPage == "sleep"

\* lines 21-69: one pass of the loop body with the API answering resp, and
\* the return of line 69 when the pass ends the loop
Request(c, resp) ==
    /\ pc = "fetching"
    /\ chunk[c].st = "request"
    /\ requested' = TRUE
    /\ events_used' = events_used + IF IsEvent(resp) THEN 1 ELSE 0
    /\ IF resp.raise
       THEN /\ chunk' = [chunk EXCEPT ![c].st = "errsleep",
                                      ![c].raised = "request",
                                      ![c].requests = @ + 1,
                                      ![c].sent = chunk[c].cursor,
                                      ![c].last = [raise |-> TRUE],
                                      ![c].all_rows = RowsAfterError(@)]
            /\ UNCHANGED chunk_results
       ELSE LET got == ProcessPage(resp.messages)
                rows == chunk[c].all_rows \o got.rows
                result == [has_more |-> resp.has_more,
                           next_cursor |-> resp.next_cursor]
            IN  IF got.raised
                THEN /\ chunk' = [chunk EXCEPT ![c].st = "errsleep",
                                               ![c].raised = "processing",
                                               ![c].requests = @ + 1,
                                               ![c].sent = chunk[c].cursor,
                                               ![c].last = result,
                                               ![c].all_rows = RowsAfterError(rows),
                                               ![c].pages = Append(@, resp.messages)]
                     /\ UNCHANGED chunk_results
                ELSE IF HasMore(resp.next_cursor, resp.has_more)
                THEN /\ chunk' = [chunk EXCEPT ![c].st = AfterPage,
                                               ![c].requests = @ + 1,
                                               ![c].cursor = resp.next_cursor,
                                               ![c].sent = chunk[c].cursor,
                                               ![c].last = result,
                                               ![c].all_rows = rows,
                                               ![c].pages = Append(@, resp.messages)]
                     /\ UNCHANGED chunk_results
                ELSE /\ chunk' = [chunk EXCEPT ![c] =
                                      [Finished EXCEPT !.calls = chunk[c].calls,
                                                       !.window = chunk[c].window,
                                                       !.requests = chunk[c].requests + 1,
                                                       !.delays = chunk[c].delays,
                                                       !.sent = chunk[c].cursor,
                                                       !.last = result]]
                     /\ chunk_results' = [chunk_results EXCEPT ![c] = rows]
    /\ UNCHANGED <<writes, favstats, cache_file, pc, entry, path, start_date, end_date,
                   start_time, end_time, time_chunks, ret, had_cache, stored>>

SleepsForever == "asleep"

\* where the loop is once time.sleep(2) has returned: at the request
AfterSleep == "request"

\* lines 60-61: time.sleep(2) before the continuation request
Sleep(c) ==
    /\ pc = "fetching"
    /\ chunk[c].st = "sleep"
    /\ chunk' = [chunk EXCEPT ![c].st = AfterSleep, ![c].delays = @ + 1]
    /\ UNCHANGED <<writes, favstats, cache_file, pc, entry, path, start_date, end_date,
                   start_time, end_time, time_chunks, chunk_results, ret, events_used, requested, had_cache, stored>>

\* lines 65-69: time.sleep(2) in the handler, has_more = False, and the
\* return of line 69; the thread is free again
ErrorSleep(c) ==
    /\ pc = "fetching"
    /\ chunk[c].st = "errsleep"
    /\ chunk_results' = [chunk_results EXCEPT ![c] = chunk[c].all_rows]
    /\ chunk' = [chunk EXCEPT ![c] = [Finished EXCEPT !.raised = chunk[c].raised,
                                                       !.calls = chunk[c].calls,
                                                       !.window = chunk[c].window,
                                                       !.requests = chunk[c].requests,
                                                       !.delays = chunk[c].delays,
                                                       !.sent = chunk[c].sent,
                                                       !.last = chunk[c].last]]
    /\ UNCHANGED <<writes, favstats, cache_file, pc, entry, path, start_date, end_date,
                   start_time, end_time, time_chunks, ret, events_used,
                   requested, had_cache, stored>>

-----------------------------------------------------------------------------
(* fetch_etl_history and the rebuild entry point *)

\* lines 75-107 with the file as the caller left it: the cache short-circuit,
\* or the time range, the chunk windows and the submission of every chunk
Enter(file, sd, ed, now) ==
    /\ start_date' = sd
    /\ end_date' = ed
    /\ events_used' = 0
    /\ requested' = FALSE
    /\ had_cache' = (cache_file # NoFile)
    /\ writes' = 0
    /\ IF Exists(file)
       THEN /\ path' = "cache"
            /\ ret' = ReadParquet(file)
            /\ pc' = "done"
            /\ start_time' = NoTime
            /\ end_time' = NoTime
            /\ time_chunks' = <<>>
            /\ chunk' = <<>>
            /\ chunk_results' = <<>>
       ELSE LET e == IF ed = NoDate THEN now ELSE Strptime(ed)
                s == IF sd = NoDate THEN Strptime(DefaultStart) ELSE Strptime(sd)
                w == ChunkWindows(s, e)
            IN  /\ path' = "fetch"
                /\ ret' = Pending
                /\ pc' = "fetching"
                /\ start_time' = s
                /\ end_time' = e
                /\ time_chunks' = w
                /\ chunk' = [c \in 1..Len(w) |-> Queued]
                /\ chunk_results' = [c \in 1..Len(w) |-> <<>>]

\* the <<start_date, end_date>> arguments the function is called with
CallArgs == {<<NoDate, NoDate>>, <<NoDate, <<2024, 1, 20>>>>,
             <<<<2025, 1, 6>>, <<2025, 1, 22>>>>, <<<<2025, 1, 6>>, NoDate>>}
\* datetime.now(): the function is called at noon of 2024-01-10
Nows == {Strptime(<<2024, 1, 10>>) + 1}

\* fetch_etl_history(cache_file, start_date=sd, end_date=ed) called directly
Call(sd, ed, now) ==
    /\ pc \in {"idle", "done"}
    /\ entry' = "call"
    /\ Enter(cache_file, sd, ed, now)
    /\ UNCHANGED <<cache_file, stored, favstats>>

\* lines 164-174: the rebuild entry point
Main ==
    /\ pc \in {"idle", "done"}
    /\ entry' = "main"
    /\ LET file == RemoveIfExists(cache_file)
       IN  /\ cache_file' = file
           /\ stored' = IF file = NoFile THEN NotStored ELSE stored
           /\ Enter(file, MainStartDate, MainEndDate, NoTime)
    /\ UNCHANGED favstats

WithoutWaiting == TRUE

\* lines 110-116: list(executor.map(...)) has every result and the with
\* block has shut the pool down
AllChunksDone == \A c \in 1..NChunks : chunk[c].st = "done"

\* lines 118-133, once the pool has shut down
Combine ==
    /\ pc = "fetching"
    /\ AllChunksDone
    /\ pc' = "done"
    /\ LET all_rows == Flatten(chunk_results)
       IN  IF IsEmpty(all_rows)
           THEN /\ ret' = NoData
                /\ UNCHANGED <<cache_file, stored, writes>>
           ELSE \E df \in SortTimestamp(DataFrame(all_rows)) :
                   /\ cache_file' = WriteParquet(df)
                   /\ writes' = writes + 1
                   /\ ret' = df
                   /\ stored' = RowSet(all_rows)
    /\ UNCHANGED <<favstats, entry, path, start_date, end_date, start_time, end_time,
                   time_chunks, chunk, chunk_results, events_used, requested, had_cache>>

-----------------------------------------------------------------------------
(* Specifications *)

\* a snapshot left by an earlier run
OldRows == AttachmentRows([ts |-> TsAt(<<2024, 1, 2>>, 0)], [pretext |-> Marker, text |-> TextB])
OldFile == WriteParquet(DataFrame(OldRows))

InitWith(files) ==
    /\ cache_file \in files
    /\ pc = "idle"
    /\ entry = "none"
    /\ path = "none"
    /\ start_date = NoDate
    /\ end_date = NoDate
    /\ start_time = NoTime
    /\ end_time = NoTime
    /\ time_chunks = <<>>
    /\ chunk = <<>>
    /\ chunk_results = <<>>
    /\ ret = Pending
    /\ events_used = 0
    /\ requested = FALSE
    /\ had_cache = FALSE
    /\ stored = NotStored
    /\ favstats = NoStats
    /\ writes = 0

Init == InitWith({NoFile, OldFile})

\* the chunks a pool thread is working on
Running == {c \in 1..NChunks : chunk[c].st \notin {"queued", "done"}}

Workers ==
    \/ \E c \in 1..NChunks : StartChunk(c)
    \/ \E c \in Running : \E resp \in Responses(c) : Request(c, resp)
    \/ \E c \in Running : Sleep(c)
    \/ \E c \in Running : ErrorSleep(c)

Next ==
    \/ \E args \in CallArgs, now \in Nows : Call(args[1], args[2], now)
    \/ Workers
    \/ Combine

\* the library function called with small date ranges
Spec == Init /\ [][Next]_vars

NextMain == Main \/ Workers \/ Combine

\* the rebuild entry point, run repeatedly
SpecMain == Init /\ [][NextMain]_vars


-----------------------------------------------------------------------------
(* The chunk windows of every date range of the first months of 2024 *)

\* the months start_date and end_date are drawn from
MaxMonth == 2

ChunkDates == {<<2024, m, d>> : m \in 1..MaxMonth, d \in 1..31} \cap
              {date \in {2024} \X (1..12) \X (1..31) : date[3] <= DaysInMonth(2024, date[2])}

NextChunks ==
    \/ \E sd \in ChunkDates \cup {NoDate}, ed \in ChunkDates \cup {NoDate}, now \in Nows :
          Call(sd, ed, now)
    \/ Main

SpecChunks == InitWith({NoFile}) /\ [][NextChunks]_vars

\* the windows that hold tick t
WindowsHolding(t) ==
    {i \in 1..Len(time_chunks) : time_chunks[i][1] <= t /\ t < time_chunks[i][2]}

\* C1: the windows computed for [start, end) are half-open, each longer than
\* nothing and at most seven days, each starts where the one before it ends,
\* the first starts at start and the last ends at end, and every instant lies
\* in exactly one window when it lies in [start, end) and in none otherwise;
\* [2024-01-01, 2024-01-20) gives exactly the windows [01-01, 01-08),
\* [01-08, 01-15) and [01-15, 01-20)
C1_ChunkWindowsTile ==
    path = "fetch" =>
        LET n == Len(time_chunks)
        IN  /\ (n = 0) <=> (start_time >= end_time)
            /\ n > 0 => /\ time_chunks[1][1] = start_time
                        /\ time_chunks[n][2] = end_time
            /\ \A i \in 1..n :
                  /\ time_chunks[i][1] < time_chunks[i][2]
                  /\ time_chunks[i][2] - time_chunks[i][1] <= 7 * TicksPerDay
            /\ \A i \in 1..(n - 1) : time_chunks[i][2] = time_chunks[i + 1][1]
            /\ \A t \in (Min({start_time, end_time}) - 1)..(Max({start_time, end_time}) + 1) :
                  Cardinality(WindowsHolding(t)) =
                      IF start_time <= t /\ t < end_time THEN 1 ELSE 0
            /\ (start_date = <<2024, 1, 1>> /\ end_date = <<2024, 1, 20>>) =>
                  time_chunks = <<<<0, 7 * TicksPerDay>>,
                                  <<7 * TicksPerDay, 14 * TicksPerDay>>,
                                  <<14 * TicksPerDay, 19 * TicksPerDay>>>>

\* the range of the example has been cut: two full windows and a short one
C1_Witness ==
    /\ path = "fetch"
    /\ start_date = <<2024, 1, 1>>
    /\ end_date = <<2024, 1, 20>>
    /\ Len(time_chunks) = 3
    /\ time_chunks[3][2] - time_chunks[3][1] < 7 * TicksPerDay


-----------------------------------------------------------------------------
(* The merged result: claims about fetch_etl_history on small date ranges *)

Sorted(seq) == \A i \in 1..(Len(seq) - 1) : seq[i] <= seq[i + 1]

FetchDone == pc = "done" /\ path = "fetch"

\* C2: whatever the chunks returned and in whatever order they completed,
\* the timestamps of the returned records never decrease from one record to
\* the next, and the snapshot holds the records in the same order
C2_ResultSortedByTimestamp ==
    (FetchDone /\ ret # NoData) =>
        /\ Sorted(ret.timestamp)
        /\ Exists(cache_file)
        /\ ReadParquet(cache_file) = ret
        /\ Sorted(ReadParquet(cache_file).timestamp)

\* the chunks handed back records that were not in timestamp order
C2_Witness ==
    /\ FetchDone
    /\ ret # NoData
    /\ ~Sorted(DataFrame(Flatten(chunk_results)).timestamp)
    /\ Height(ret) >= 3

\* the records of pages from..Len(pages), in order
RECURSIVE RowsOfPages(_, _)
RowsOfPages(pages, from) ==
    IF from > Len(pages) THEN <<>>
    ELSE ProcessMessages(pages[from]).rows \o RowsOfPages(pages, from + 1)

\* C3: when a page request raised after k >= 0 pages had been processed, the
\* chunk returns exactly the records of those k pages
C3_ErrorKeepsEarlierPages ==
    [][\A c \in 1..NChunks :
          (/\ pc = "fetching"
           /\ chunk[c].st = "errsleep"
           /\ chunk[c].raised = "request"
           /\ chunk'[c].st = "done")
          => chunk_results'[c] = RowsOfPages(chunk[c].pages, 1)]_vars

\* a chunk whose request raised after a page with records has returned
C3_Witness ==
    /\ pc = "fetching"
    /\ \E c \in 1..NChunks :
          /\ chunk[c].st = "done"
          /\ chunk[c].raised = "request"
          /\ Len(chunk_results[c]) >= 2

\* C4: a failure inside one chunk does not abort the run: while chunks are
\* outstanding some step is possible, the run ends with a result, and every
\* record of a chunk that did not fail is among the merged records
C4_ChunkFailureIsolated ==
    /\ (pc = "fetching" /\ \E c \in 1..NChunks : chunk[c].st # "done") => ENABLED Workers
    /\ FetchDone =>
          /\ ret # Pending
          /\ \A c \in 1..NChunks :
                chunk[c].raised = "no" =>
                    \A i \in 1..Len(chunk_results[c]) :
                        /\ ret # NoData
                        /\ chunk_results[c][i] \in RowSet(DfRows(ret))

\* one chunk failed, a later chunk did not and returned records
C4_Witness ==
    /\ FetchDone
    /\ \E c, d \in 1..NChunks :
          /\ c < d
          /\ chunk[c].raised # "no"
          /\ chunk[d].raised = "no"
          /\ chunk_results[d] # <<>>

\* C5: a call that finds the snapshot returns the snapshot's records, makes
\* no request, dispatches no chunk and leaves the snapshot as it is, whatever
\* dates it is given
C5_CacheHitReadsOnly ==
    [][(pc \in {"idle", "done"} /\ cache_file # NoFile)
          => /\ cache_file' = cache_file
             /\ ret' = ReadParquet(cache_file)
             /\ pc' = "done"
             /\ ~requested'
             /\ time_chunks' = <<>>
             /\ chunk' = <<>>]_vars

\* a call with dates was answered from the snapshot
C5_Witness ==
    /\ pc = "done"
    /\ path = "cache"
    /\ start_date # NoDate
    /\ end_date # NoDate
    /\ Height(ret) >= 1

\* C6: the records a later call loads from the snapshot are, as a set of
\* field tuples, the records the run that wrote the snapshot had merged
C6_CacheRoundTrip ==
    (pc = "done" /\ path = "cache" /\ stored # NotStored) =>
        RowSet(DfRows(ret)) = stored

\* a snapshot of several records written by one call was read by the next
C6_Witness ==
    /\ pc = "done"
    /\ path = "cache"
    /\ Cardinality(stored) >= 3
    /\ Height(ret) >= 3

\* C9: when every chunk is empty the call returns None and writes no
\* snapshot; a snapshot is written only for a non-empty merged sequence
C9_EmptyResultWritesNothing ==
    FetchDone =>
        /\ Flatten(chunk_results) = <<>> => (ret = NoData /\ ~Exists(cache_file))
        /\ Exists(cache_file) => Flatten(chunk_results) # <<>>

\* requests were made, every chunk came back empty
C9_Witness ==
    /\ FetchDone
    /\ NChunks >= 2
    /\ requested
    /\ ret = NoData
    /\ cache_file = NoFile

-----------------------------------------------------------------------------
(* The rebuild entry point *)

\* C10: a rebuild never answers from a snapshot: it deletes the snapshot
\* before it fetches, it makes requests, and what it returns and what it
\* leaves as the snapshot are the records of that fetch alone
C10_RebuildFetchesAfresh ==
    entry = "main" =>
        /\ path = "fetch"
        /\ pc = "fetching" => ~Exists(cache_file)
        /\ pc = "done" =>
              /\ requested
              /\ ret = NoData => ~Exists(cache_file)
              /\ ret # NoData =>
                    /\ cache_file = WriteParquet(ret)
                    /\ RowSet(DfRows(ret)) = RowSet(Flatten(chunk_results))

\* a rebuild that found a snapshot has ended with records
C10_Witness ==
    /\ entry = "main"
    /\ had_cache
    /\ pc = "done"
    /\ ret # NoData


-----------------------------------------------------------------------------
(* Record extraction on notification texts written from the template *)

\* the most `table: N rows` pairs in one notification text
MaxPairs == 2

Note == <<"b","a","r">>
FooCsv == <<"f","o","o",".","c","s","v">>
Warehouse == <<"w","a","r","e","h","o","u","s","e">>
Orders == <<"o","r","d","e","r","s">>
Customers == <<"c","u","s","t","o","m","e","r","s">>
DottedTable == <<"u",".","v">>

TablePairs == {<<Orders, 150>>, <<Customers, 30>>, <<DottedTable, 7>>}
PairLists == UNION {[1..n -> TablePairs] : n \in 0..MaxPairs}

\* what the upstream pipeline reports: a file, a destination and row counts
Templates == [fn : {<<"f">>, FooCsv}, dest : {<<"w">>, Warehouse}, pairs : PairLists]

FormatPair(p) == p[1] \o <<":", " ">> \o Numeral(p[2]) \o <<" ">> \o S_rows

RECURSIVE FormatPairs(_, _)
FormatPairs(pairs, i) ==
    IF i > Len(pairs) THEN <<>>
    ELSE (IF i > 1 THEN <<",", " ">> ELSE <<>>)
         \o FormatPair(pairs[i]) \o FormatPairs(pairs, i + 1)

\* "loaded: <fn> (bar) into <dest>: <table>: <n> rows, <table>: <n> rows"
Format(t) ==
    S_loaded \o t.fn \o S_open \o Note \o <<")", " ">> \o S_into \o t.dest
    \o S_colon \o (IF t.pairs = <<>> THEN <<>> ELSE <<" ">> \o FormatPairs(t.pairs, 1))

ExampleText == <<"l","o","a","d","e","d",":"," ","f","o","o",".","c","s","v"," ","(","b","a","r",")"," ","i","n","t","o"," ","w","a","r","e","h","o","u","s","e",":"," ","o","r","d","e","r","s",":"," ","1","5","0"," ","r","o","w","s",","," ","c","u","s","t","o","m","e","r","s",":"," ","3","0"," ","r","o","w","s">>

\* an attachment as the pipeline or another integration posts it
AttachmentKinds == [pretext : {Marker, "Build"}, tpl : Templates]
\* the attachments of messages that carry two of them
PairedKinds == {a \in AttachmentKinds : a.tpl.pairs = <<<<Orders, 150>>>>}

\* the attachment lists of the messages: none, one or two attachments
MessageKinds ==
    {<<>>} \cup {<<a>> : a \in AttachmentKinds}
           \cup {<<a, b>> : a \in PairedKinds, b \in PairedKinds}

ExtractDate == <<2025, 1, 6>>
ExtractTs == TsAt(ExtractDate, 1)

MessageOf == [d \in MessageKinds |->
                 [ts |-> ExtractTs,
                  attachments |-> [i \in 1..Len(d) |->
                      [pretext |-> d[i].pretext, text |-> Format(d[i].tpl)]]]]

ExampleMsg == [ts |-> ExtractTs,
               attachments |-> <<[pretext |-> Marker, text |-> ExampleText]>>]
\* a message without attachments, one whose marker attachment has no text,
\* one whose attachment has no pretext
BodyOnlyMsg == [ts |-> ExtractTs, text |-> ExampleText]
NoTextMsg == [ts |-> ExtractTs, attachments |-> <<[pretext |-> Marker]>>]
NoPretextMsg == [ts |-> ExtractTs, text |-> ExampleText,
                 attachments |-> <<[text |-> ExampleText]>>]

WideMessages ==
    {MessageOf[d] : d \in MessageKinds}
    \cup {ExampleMsg, BodyOnlyMsg, NoTextMsg, NoPretextMsg}

\* one chunk of two days whose pages each hold one message; every page is
\* followed by another, so the chunk keeps what it has extracted
NextExtract ==
    \/ \E now \in Nows : Call(ExtractDate, <<2025, 1, 8>>, now)
    \/ \E c \in 1..NChunks : StartChunk(c)
    \/ \E c \in Running : \E m \in WideMessages : Request(c, Ok(<<m>>, TRUE, "c1"))

SpecExtract == InitWith({NoFile}) /\ [][NextExtract]_vars

\* the records the pipeline's report stands for
ExpectedOfAttachment(a) ==
    IF a.pretext = "ETL Notification"
    THEN [p \in 1..Len(a.tpl.pairs) |->
            [timestamp |-> Strptime(ExtractDate) + 1, filename |-> a.tpl.fn,
             destination |-> a.tpl.dest, table |-> a.tpl.pairs[p][1],
             rows |-> a.tpl.pairs[p][2]]]
    ELSE <<>>

RECURSIVE ExpectedFrom(_, _)
ExpectedFrom(d, i) ==
    IF i > Len(d) THEN <<>>
    ELSE ExpectedOfAttachment(d[i]) \o ExpectedFrom(d, i + 1)

\* chunk c has processed exactly one page, which held exactly message m
Processed(c, m) == chunk[c].st = "sleep" /\ chunk[c].pages = <<<<m>>>>

\* C7 (as amended): every marker attachment yields exactly one record per
\* `table: N rows` pair of its text, none when there is no pair, in the
\* order of the text, and the records of one marker attachment share the
\* message's timestamp and that attachment's filename and destination; the
\* example text yields (orders, 150) and (customers, 30) with filename
\* foo.csv and destination warehouse
C7_RecordsPerMarkerAttachment ==
    \A c \in 1..NChunks :
        /\ \A d \in MessageKinds :
              Processed(c, MessageOf[d]) => chunk[c].all_rows = ExpectedFrom(d, 1)
        /\ Processed(c, NoTextMsg) => chunk[c].all_rows = <<>>
        /\ Processed(c, ExampleMsg) =>
              chunk[c].all_rows =
                  <<[timestamp |-> Strptime(ExtractDate) + 1, filename |-> FooCsv,
                     destination |-> Warehouse, table |-> Orders, rows |-> 150],
                    [timestamp |-> Strptime(ExtractDate) + 1, filename |-> FooCsv,
                     destination |-> Warehouse, table |-> Customers, rows |-> 30]>>

\* a message with two marker attachments that name different files has
\* yielded one record for each
C7_Witness ==
    \E c \in 1..NChunks :
        /\ chunk[c].st = "sleep"
        /\ Len(chunk[c].pages) = 1
        /\ Len(chunk[c].pages[1]) = 1
        /\ "attachments" \in DOMAIN chunk[c].pages[1][1]
        /\ Len(chunk[c].pages[1][1].attachments) = 2
        /\ Len(chunk[c].all_rows) = 2
        /\ chunk[c].all_rows[1].filename # chunk[c].all_rows[2].filename

\* C7 as stated: all records of one message share the message's timestamp,
\* filename and destination
C7_OriginalMessageShares ==
    \A c \in 1..NChunks :
        (chunk[c].st = "sleep" /\ Len(chunk[c].pages) = 1 /\ Len(chunk[c].pages[1]) = 1) =>
            \A r1, r2 \in RowSet(chunk[c].all_rows) :
                /\ r1.timestamp = r2.timestamp
                /\ r1.filename = r2.filename
                /\ r1.destination = r2.destination

\* no attachment of msg has the marker pretext
NoMarker(msg) ==
    "attachments" \in DOMAIN msg =>
        \A i \in 1..Len(msg.attachments) :
            "pretext" \in DOMAIN msg.attachments[i] =>
                msg.attachments[i].pretext # "ETL Notification"

\* C8: messages without an attachment of the marker pretext, messages
\* without attachments among them, contribute no record, whatever their
\* body and attachment texts say
C8_NoMarkerNoRecords ==
    \A c \in 1..NChunks :
        (/\ chunk[c].st = "sleep"
         /\ \A k \in 1..Len(chunk[c].pages) :
               \A j \in 1..Len(chunk[c].pages[k]) : NoMarker(chunk[c].pages[k][j]))
        => chunk[c].all_rows = <<>>

\* a message whose only attachment is another integration's, with row
\* counts in its text, has been processed
C8_Witness ==
    \E c \in 1..NChunks :
        /\ chunk[c].st = "sleep"
        /\ Len(chunk[c].pages) = 1
        /\ Len(chunk[c].pages[1]) = 1
        /\ "attachments" \in DOMAIN chunk[c].pages[1][1]
        /\ Len(chunk[c].pages[1][1].attachments) = 1
        /\ chunk[c].pages[1][1].attachments[1].pretext = "Build"
        /\ Len(FindTables(chunk[c].pages[1][1].attachments[1].text)) = 2
        /\ chunk[c].all_rows = <<>>


-----------------------------------------------------------------------------
(* The analysis script archive/scripts/etl-analysis-2024.py: it reads the  *)
(* snapshot and computes summary statistics of the daily loads and rows.   *)
(* Fractions are exact: a value is [num, den] in lowest terms; the         *)
(* standard deviation is kept as its square.                               *)

RECURSIVE GCD(_, _)
GCD(a, b) == IF b = 0 THEN a ELSE GCD(b, a % b)

\* num / den for num >= 0, den > 0
Ratio(num, den) == [num |-> num \div GCD(num, den), den |-> den \div GCD(num, den)]

DateIsTimestamp(ts) == ts

\* line 10: pl.col('timestamp').dt.date()
DateOf(ts) == ts \div TicksPerDay

\* lines 9-15 for rows i.. of df: one group per date, with the count of its
\* records as loads and the sum of their rows as rows
RECURSIVE GroupByDate(_, _)
GroupByDate(df, i) ==
    IF i > Height(df) THEN [d \in {} |-> 0]
    ELSE LET rest == GroupByDate(df, i + 1)
             date == DateOf(df.timestamp[i])
             seen == date \in DOMAIN rest
         IN  [d \in DOMAIN rest \cup {date} |->
                 IF d = date
                 THEN [loads |-> 1 + (IF seen THEN rest[date].loads ELSE 0),
                       rows |-> df.rows[i] + (IF seen THEN rest[date].rows ELSE 0)]
                 ELSE rest[d]]

\* the values of a column of daily_stats, ascending (the order of the groups
\* is arbitrary and no statistic depends on it)
RECURSIVE SortedValues(_, _)
SortedValues(daily, column) ==
    IF DOMAIN daily = {} THEN <<>>
    ELSE LET d == CHOOSE x \in DOMAIN daily :
                     \A y \in DOMAIN daily : daily[x][column] <= daily[y][column]
         IN  <<daily[d][column]>>
             \o SortedValues([x \in DOMAIN daily \ {d} |-> daily[x]], column)

RECURSIVE SumSeq(_, _)
SumSeq(a, i) == IF i > Len(a) THEN 0 ELSE a[i] + SumSeq(a, i + 1)

RECURSIVE SumSquares(_, _)
SumSquares(a, i) == IF i > Len(a) THEN 0 ELSE a[i] * a[i] + SumSquares(a, i + 1)

\* np.percentile(data, q): linear interpolation at position (n - 1) * q / 100
Percentile(a, q) ==
    LET pos == (Len(a) - 1) * q
        lo == pos \div 100
        rem == pos % 100
    IN  IF rem = 0 THEN Ratio(a[lo + 1], 1)
        ELSE Ratio(100 * a[lo + 1] + rem * (a[lo + 2] - a[lo + 1]), 100)

\* np.median(data)
Median(a) ==
    IF Len(a) % 2 = 1 THEN Ratio(a[(Len(a) + 1) \div 2], 1)
    ELSE Ratio(a[Len(a) \div 2] + a[Len(a) \div 2 + 1], 2)

\* data.std(): the sample deviation, null for a single value
Std(a) ==
    IF Len(a) < 2 THEN [null |-> TRUE]
    ELSE [squared |-> Ratio(Len(a) * SumSquares(a, 1) - SumSeq(a, 1) * SumSeq(a, 1),
                            Len(a) * (Len(a) - 1))]

\* lines 18-32: get_stats(column); the aggregates hold no null
get_stats(daily, column) ==
    LET data == SortedValues(daily, column)
    IN  [min |-> data[1],
         q1 |-> Percentile(data, 25),
         median |-> Median(data),
         q3 |-> Percentile(data, 75),
         max |-> data[Len(data)],
         mean |-> Ratio(SumSeq(data, 1), Len(data)),
         sd |-> Std(data),
         n |-> Len(data),
         missing |-> 0]

\* lines 5-60; the table is printed unless a statistic is null, which the
\* number formats of lines 45-53 reject
calculate_favstats(df) ==
    LET daily_stats == GroupByDate(df, 1)
        loads_stats == get_stats(daily_stats, "loads")
        rows_stats == get_stats(daily_stats, "rows")
    IN  [daily_stats |-> daily_stats, loads |-> loads_stats, rows |-> rows_stats,
         printed |-> "squared" \in DOMAIN loads_stats.sd]

\* lines 62-67: the script; read_parquet raises when there is no snapshot
Analyse ==
    /\ pc \in {"idle", "done"}
    /\ favstats' = IF Exists(cache_file)
                   THEN calculate_favstats(ReadParquet(cache_file))
                   ELSE [printed |-> FALSE, raised |-> "read_parquet"]
    /\ UNCHANGED <<cache_file, pc, entry, path, start_date, end_date, start_time,
                   end_time, time_chunks, chunk, chunk_results, ret, events_used,
                   requested, had_cache, stored, writes>>

\* the most days, and the most records of one day, in a snapshot
MaxStatDays == 4
MaxStatLoads == 3

\* the k-th record of day d: the first at midnight, the others later that day
StatsRow(d, k) ==
    [timestamp |-> (d - 1) * TicksPerDay + (IF k = 1 THEN 0 ELSE TicksPerDay - 1),
     filename |-> <<"f">>, destination |-> <<"w">>, table |-> <<"t">>,
     rows |-> d + k]

\* a snapshot with counts[d] records on day d, in timestamp order
RECURSIVE StatsRows(_, _)
StatsRows(counts, d) ==
    IF d > Len(counts) THEN <<>>
    ELSE [k \in 1..counts[d] |-> StatsRow(d, k)] \o StatsRows(counts, d + 1)

StatsCounts ==
    ([1..MaxStatDays -> 0..MaxStatLoads] \ {[d \in 1..MaxStatDays |-> 0]})
    \cup {<<1, 2, 3, 4, 5>>, <<4, 1, 5, 3, 2>>}

StatsFiles == {WriteParquet(DataFrame(StatsRows(counts, 1))) : counts \in StatsCounts}

SpecStats == InitWith(StatsFiles \cup {NoFile}) /\ [][Analyse]_vars

\* the days of the snapshot's records and the number of records of a day
SnapshotDays ==
    {ReadParquet(cache_file).timestamp[i] \div TicksPerDay :
        i \in 1..Height(ReadParquet(cache_file))}
RecordsOn(d) ==
    Cardinality({i \in 1..Height(ReadParquet(cache_file)) :
                    ReadParquet(cache_file).timestamp[i] \div TicksPerDay = d})

Computed == "loads" \in DOMAIN favstats

\* C11: the daily series has one entry per calendar day of the records,
\* its loads is the number of records of that day, n is the number of days
\* and nothing is missing; when the daily loads are 1, 2, 3, 4 and 5 the
\* loads column has min 1, max 5, median 3, mean 3, n 5 and missing 0
C11_FavstatsLoads ==
    Computed =>
        /\ DOMAIN favstats.daily_stats = SnapshotDays
        /\ \A d \in SnapshotDays : favstats.daily_stats[d].loads = RecordsOn(d)
        /\ favstats.loads.n = Cardinality(SnapshotDays)
        /\ favstats.loads.missing = 0
        /\ (Cardinality(SnapshotDays) = 5 /\ {RecordsOn(d) : d \in SnapshotDays} = 1..5) =>
              /\ favstats.loads.min = 1
              /\ favstats.loads.max = 5
              /\ favstats.loads.median = [num |-> 3, den |-> 1]
              /\ favstats.loads.mean = [num |-> 3, den |-> 1]
              /\ favstats.loads.n = 5
              /\ favstats.loads.missing = 0

\* the statistics of a snapshot with 4, 1, 5, 3 and 2 records on five days
C11_Witness ==
    /\ Computed
    /\ Cardinality(SnapshotDays) = 5
    /\ [d \in 0..4 |-> RecordsOn(d)] = [d \in 0..4 |-> <<4, 1, 5, 3, 2>>[d + 1]]
    /\ favstats.loads.n = 5
    /\ favstats.printed


-----------------------------------------------------------------------------
(* Pagination inside one chunk *)

\* the response reported has_more true together with a non-empty cursor
Continues(result) ==
    /\ "has_more" \in DOMAIN result
    /\ result.has_more = TRUE
    /\ result.next_cursor # "None"
    /\ result.next_cursor # ""

\* the run goes on and chunk c takes a step
SameRun == pc = "fetching" /\ pc' = "fetching"

\* C12: every request of a chunk carries the cursor of the response before
\* it (none at the first request); after a response whose page was
\* processed, a further request follows if and only if the response
\* reported has_more true with a non-empty cursor; after any other
\* response, and after an error, the chunk makes no request again
C12_PaginationFollowsCursor ==
    [][\A c \in 1..NChunks :
          /\ (SameRun /\ chunk[c].st = "request" /\ chunk'[c] # chunk[c]) =>
                /\ chunk'[c].sent =
                      (IF "next_cursor" \in DOMAIN chunk[c].last
                       THEN chunk[c].last.next_cursor ELSE "None")
                /\ chunk'[c].st \in {"sleep", "errsleep", "done"}
                /\ chunk'[c].raised = "no" =>
                      (chunk'[c].st = "sleep" <=> Continues(chunk'[c].last))
                /\ chunk'[c].raised # "no" => chunk'[c].st = "errsleep"
          /\ (SameRun /\ chunk[c].st = "sleep" /\ chunk'[c] # chunk[c]) =>
                /\ chunk'[c].st = "request"
                /\ Continues(chunk[c].last)
                /\ chunk'[c].cursor = chunk[c].last.next_cursor
          /\ (SameRun /\ chunk[c].st \in {"errsleep", "done"}) =>
                /\ chunk'[c].st \in {"errsleep", "done"}
                /\ chunk'[c].sent = chunk[c].sent
                /\ chunk'[c].last = chunk[c].last]_vars

\* a chunk's second request carried the first page's cursor and was answered
\* with has_more true and an empty cursor, which ended the chunk
C12_Witness ==
    \E c \in 1..NChunks :
        /\ chunk[c].st = "done"
        /\ chunk[c].raised = "no"
        /\ chunk[c].sent = "c1"
        /\ chunk[c].last = [has_more |-> TRUE, next_cursor |-> ""]


-----------------------------------------------------------------------------
(* Termination.  The pool's threads run whenever they can, a sleep returns *)
(* and the API answers every request; it reports further pages at most     *)
(* MaxEvents times in a run.                                               *)

\* Combine can be taken exactly when the chunks are all done, so weak
\* fairness of Combine is: the call is not for ever at that point without
\* taking it
FairCombine == []<>(~(pc = "fetching" /\ AllChunksDone)) \/ []<><<Combine>>_vars

SpecLive == Init /\ [][Next]_vars /\ WF_vars(Workers) /\ FairCombine

\* C13: once the chunks are dispatched every chunk fetch finishes, having
\* drained its pages or failed, so that no chunk stays in flight, and
\* fetch_etl_history then returns
C13_EveryFetchEnds ==
    /\ (pc = "fetching") ~> (pc = "fetching" /\ AllChunksDone)
    /\ (pc = "fetching" /\ AllChunksDone) ~> (pc = "done")

\* the call has returned after one chunk went through two pages and another
\* one failed
C13_Witness ==
    /\ pc = "done"
    /\ path = "fetch"
    /\ \E c, d \in 1..NChunks :
          /\ c # d
          /\ chunk[c].sent = "c1"
          /\ chunk[d].raised = "request"


-----------------------------------------------------------------------------
(* The pool *)

\* the chunks whose fetch has begun and not ended
Fetching == {c \in 1..NChunks : chunk[c].st \in {"request", "sleep", "errsleep"}}

\* C14: never more than 3 chunk fetches are in flight; a fetch begins only
\* when fewer than 3 are in flight, and a fetch that has begun goes on to
\* its end without being set back or begun again, so a thread takes another
\* chunk only after finishing the one it had; no window is fetched twice,
\* and when the run ends every window has been fetched exactly once
C14_PoolOfThree ==
    /\ [](/\ Cardinality(Fetching) <= 3
          /\ \A c \in 1..NChunks :
                /\ chunk[c].calls <= 1
                /\ chunk[c].calls = 0 <=> chunk[c].st = "queued"
                /\ chunk[c].calls = 1 => chunk[c].window = time_chunks[c]
          /\ pc = "done" /\ path = "fetch" =>
                \A c \in 1..NChunks : chunk[c].calls = 1 /\ chunk[c].st = "done")
    /\ [][SameRun =>
            \A c \in 1..NChunks :
                /\ (chunk[c].st = "queued" /\ chunk'[c].st # "queued") =>
                      /\ Cardinality(Fetching) < 3
                      /\ chunk'[c].st = "request"
                /\ chunk[c].st # "queued" =>
                      /\ chunk'[c].st # "queued"
                      /\ chunk'[c].calls = chunk[c].calls
                      /\ chunk'[c].window = chunk[c].window
                /\ chunk[c].st = "done" => chunk'[c].st = "done"]_vars

\* three fetches are in flight, the chunks before them are done and others
\* wait for a thread
C14_Witness ==
    /\ pc = "fetching"
    /\ Cardinality(Fetching) = 3
    /\ \E c \in 1..NChunks : chunk[c].st = "done"
    /\ \E c \in 1..NChunks : chunk[c].st = "queued"
    /\ NChunks > 3


-----------------------------------------------------------------------------
(* The merge *)

\* C15: while a chunk fetch is in flight nothing is merged, sorted or
\* written (the snapshot file and the result stay as they were and no
\* write has been made), the step that merges is taken only when every
\* chunk fetch has ended, and a run writes the snapshot at most once
C15_MergeAfterAllFetches ==
    /\ [](/\ writes <= 1
          /\ (pc = "fetching" /\ InFlight # {}) => writes = 0 /\ ret = Pending
          /\ writes = 1 => /\ pc = "done" /\ path = "fetch"
                           /\ \A c \in 1..NChunks : chunk[c].st = "done")
    /\ [][(pc = "fetching" /\ (cache_file' # cache_file \/ ret' # ret
                               \/ writes' # writes \/ pc' = "done")) =>
             /\ InFlight = {}
             /\ \A c \in 1..NChunks : chunk[c].st = "done"
             /\ chunk' = chunk
             /\ writes' <= 1]_vars

\* a run of several chunks has written its snapshot, once
C15_Witness ==
    /\ pc = "done"
    /\ path = "fetch"
    /\ writes = 1
    /\ NChunks >= 2
    /\ \E c \in 1..NChunks : chunk_results[c] # <<>>


-----------------------------------------------------------------------------
(* The delay between pages *)

\* C16: within one chunk a delay lies between every page response and the
\* request that continues from it: at a request after the first, each of
\* the requests before it has been followed by a delay, the step before
\* the request is the delay, and a request never leaves the chunk at the
\* next request
C16_DelayBeforeContinuation ==
    /\ [](\A c \in 1..NChunks :
             /\ chunk[c].st = "request" => chunk[c].delays = chunk[c].requests
             /\ chunk[c].st = "sleep" => chunk[c].delays = chunk[c].requests - 1
             /\ chunk[c].requests > 0 => chunk[c].delays >= chunk[c].requests - 1)
    /\ [][SameRun =>
            \A c \in 1..NChunks :
               /\ chunk'[c].requests = chunk[c].requests + 1 =>
                     /\ chunk[c].delays = chunk[c].requests
                     /\ chunk'[c].st # "request"
               /\ (chunk[c].st # "request" /\ chunk'[c].st = "request") =>
                     \/ chunk[c].st = "queued" /\ chunk'[c].requests = 0
                     \/ /\ chunk[c].st = "sleep"
                        /\ chunk'[c].delays = chunk[c].delays + 1
                        /\ chunk'[c].requests = chunk[c].requests]_vars

\* a chunk made three requests, with a delay after the first and after the
\* second
C16_Witness ==
    \E c \in 1..NChunks :
        /\ chunk[c].st = "done"
        /\ chunk[c].requests = 3
        /\ chunk[c].delays = 2


-----------------------------------------------------------------------------
(* The range of the rebuild *)

\* the instants of the calendar year 2024, from 2024-01-01 00:00 to the
\* last instant of 2024-12-31
Year2024 == Strptime(<<2024, 1, 1>>)..(Strptime(<<2025, 1, 1>>) - 1)

\* C17: in a run of the rebuild entry point every instant of the calendar
\* year 2024, the instants of 2024-12-31 included, lies in exactly one of
\* the chunk windows
C17_RebuildCoversYear ==
    (entry = "main" /\ path = "fetch") =>
        \A t \in Year2024 : Cardinality(WindowsHolding(t)) = 1


-----------------------------------------------------------------------------
(* The merge as a multiset *)

\* how often record r occurs in a list
Count(rows, r) == Cardinality({i \in 1..Len(rows) : rows[i] = r})

\* how often record r occurs in the lists of chunks c..NChunks together
RECURSIVE CountInChunks(_, _)
CountInChunks(c, r) ==
    IF c > NChunks THEN 0
    ELSE Count(chunk_results[c], r) + CountInChunks(c + 1, r)

RECURSIVE TotalFrom(_)
TotalFrom(c) ==
    IF c > NChunks THEN 0 ELSE Len(chunk_results[c]) + TotalFrom(c + 1)

\* C18: whatever the order in which the chunk fetches ended, every record
\* occurs in the returned sequence, and in the snapshot, as often as it
\* occurs in the lists the chunk fetches returned taken together: nothing
\* is lost, nothing is added, and a record that two chunks returned is
\* there twice; None is returned only when the chunks returned nothing
C18_MergeKeepsEveryRecord ==
    FetchDone =>
        IF ret = NoData
        THEN TotalFrom(1) = 0
        ELSE LET out == DfRows(ret)
                 file == DfRows(ReadParquet(cache_file))
                 records == RowSet(out) \cup RowSet(file)
                                \cup UNION {RowSet(chunk_results[c]) : c \in 1..NChunks}
             IN  /\ Len(out) = TotalFrom(1)
                 /\ Len(file) = TotalFrom(1)
                 /\ \A r \in records :
                       /\ Count(out, r) = CountInChunks(1, r)
                       /\ Count(file, r) = CountInChunks(1, r)

\* two chunks returned the same record (its message lies on the boundary
\* between their windows) and the record is in the result twice
C18_Witness ==
    /\ FetchDone
    /\ ret # NoData
    /\ \E c, d \in 1..NChunks :
          /\ c < d
          /\ \E r \in RowSet(chunk_results[c]) \cap RowSet(chunk_results[d]) :
                Count(DfRows(ret), r) >= 2
    /\ Height(ret) >= 3

====
